---- MODULE Spec2Model ----
(***************************************************************************)
(* Model of the Konami-code example: the key-sequence checker built by     *)
(* createKeyChecker and the useHotKey hook that binds it to the window's   *)
(* keydown events (src/src/useHotKey.js), used by the Konami component     *)
(* (src/unnamed/part_000).                                                 *)
(***************************************************************************)
EXTENDS Integers, Sequences, FiniteSets, TLC

\* ------------------------------------------------------------ bounds
\* longest hot-key array enumerated exhaustively
MaxSeqLen == 2
\* longest stream of keys fed to one checker
MaxStream == 7

\* ------------------------------------------------------------ values
\* key identifiers (KeyboardEvent.key) a stream is made of
Keys == {"a", "b", "c"}

\* the value of an array read out of range, and of a missing argument
Undefined == "undefined"

\* what a checker may be called with: a key, or undefined when the event
\* carries no key property
InputKeys == Keys \cup {Undefined}

\* all arrays over Keys of length lo..hi
SeqsOf(lo, hi) == UNION {[1..n -> Keys] : n \in lo..hi}

\* the two arrays the specification names in its scenarios
ScenarioABAC == <<"a", "b", "a", "c">>
ScenarioAAB == <<"a", "a", "b">>

\* arrays a checker is built from: every array up to MaxSeqLen (the empty
\* one is the default argument of createKeyChecker) and the named scenarios
HotkeyArrays == SeqsOf(0, MaxSeqLen) \cup {ScenarioABAC, ScenarioAAB}

\* ------------------------------------------------------------ createKeyChecker
\* hotkeys[index] of JavaScript: zero-based, undefined out of range
At(arr, i) == IF (i + 1) \in DOMAIN arr THEN arr[i + 1] ELSE Undefined

\* const TAIL = hotkeys.length - 1
TAIL(arr) == Len(arr) - 1

\* faulty variant: the cursor is not reset when the last key matches
keyCheckerNoTailReset(arr, idx, key) ==
  IF key # At(arr, idx) THEN [index |-> 0, result |-> FALSE]
  ELSE IF idx = TAIL(arr) THEN [index |-> idx + 1, result |-> TRUE]
  ELSE [index |-> idx + 1, result |-> FALSE]

\* faulty variant: a mismatching key that equals the first hot key starts a new attempt
keyCheckerResync(arr, idx, key) ==
  IF key # At(arr, idx)
    THEN [index |-> IF key = At(arr, 0) /\ Len(arr) > 1 THEN 1 ELSE 0,
          result |-> FALSE]
  ELSE IF idx = TAIL(arr) THEN [index |-> 0, result |-> TRUE]
  ELSE [index |-> idx + 1, result |-> FALSE]

\* faulty variant: a mismatching key leaves the cursor where it is
keyCheckerKeepOnMismatch(arr, idx, key) ==
  IF key # At(arr, idx) THEN [index |-> idx, result |-> FALSE]
  ELSE IF idx = TAIL(arr) THEN [index |-> 0, result |-> TRUE]
  ELSE [index |-> idx + 1, result |-> FALSE]

\* faulty variant: the last position is tested with >= instead of ===
keyCheckerGeTail(arr, idx, key) ==
  IF key # At(arr, idx) THEN [index |-> 0, result |-> FALSE]
  ELSE IF idx >= TAIL(arr) THEN [index |-> 0, result |-> TRUE]
  ELSE [index |-> idx + 1, result |-> FALSE]

\* the closure createKeyChecker returns, applied to key with the closure's
\* cursor at idx: the new cursor and the returned boolean
keyChecker(arr, idx, key) ==
  IF key # At(arr, idx) THEN [index |-> 0, result |-> FALSE]
  ELSE IF idx = TAIL(arr) THEN [index |-> 0, result |-> TRUE]
  ELSE [index |-> idx + 1, result |-> FALSE]

\* ------------------------------------------------------------ useHotKey: values
\* bound on the number of renders of the component that calls useHotKey
MaxRenders == 4
\* number of most recent keydown keys the observers remember
MaxTyped == 3
\* number of complete entries of the sequence followed by the script observer
MaxRounds == 2

\* a hotKeys argument: an array (an object with an identity, ref) or a string
Arr(r, a) == [kind |-> "array", ref |-> r, arr |-> a, str |-> ""]
Scalar(k) == [kind |-> "scalar", ref |-> 0, arr |-> <<>>, str |-> k]
NoHotKeys == [kind |-> "none", ref |-> 0, arr |-> <<>>, str |-> ""]

\* const sequence = [...] of the application
sequence ==
  Arr(9, <<"ArrowUp", "ArrowUp", "ArrowDown", "ArrowDown", "ArrowLeft",
           "ArrowRight", "ArrowLeft", "ArrowRight", "b", "a", "Enter">>)

\* the keys the application's user presses
AppKeys == {sequence.arr[i] : i \in DOMAIN sequence.arr}

\* hotKeys arguments a caller of useHotKey passes: two arrays with the same
\* contents and different identities, an array with a repeated key, a plain
\* string, the empty array and the one-element array of that string
HotKeysPool ==
  { Arr(1, <<"a", "b">>), Arr(2, <<"a", "b">>), Arr(3, <<"a", "a", "b">>),
    Scalar("c"), Arr(4, <<>>), Arr(5, <<"c">>) }

\* faulty variant: a value that is not an array is not wrapped
ConcatNoWrap(h) == h.arr

\* [].concat(hotKeys): an array is copied, any other value becomes the one
\* element of a new array
Concat(h) == IF h.kind = "array" THEN h.arr ELSE <<h.str>>

\* the comparison useMemo makes between the old and the new dependency
ObjectIs(x, y) == x = y

\* the listen closure of one render, and "no function"
Listen(n, c) == [id |-> n, crawler |-> c, onMatch |-> n]
NoListen == [id |-> 0, crawler |-> 0, onMatch |-> 0]
NoMemo == [deps |-> NoHotKeys, value |-> 0]

\* a fresh closure of createKeyChecker: let index = 0
createKeyChecker(arr) == [hotkeys |-> arr, index |-> 0]

\* ------------------------------------------------------------ window.addEventListener
Has(ls, l) == \E i \in DOMAIN ls : ls[i] = l

\* a function already registered is not registered twice
addEventListener(ls, l) == IF Has(ls, l) THEN ls ELSE Append(ls, l)

\* removal is by reference
removeEventListener(ls, l) == SelectSeq(ls, LAMBDA x : x # l)

\* faulty variant: no cleanup is returned, the handler stays registered
cleanupNoRemove(ls, cl) == ls

\* the function the effect returns: () => window.removeEventListener("keydown", listen)
effectCleanup(ls, cl) == removeEventListener(ls, cl)

\* faulty variant: the effect has an empty dependency list, it runs after the first
\* render only
useEffectOnMountOnly(ls, cl, l) ==
  IF cl = NoListen
    THEN [listeners |-> addEventListener(ls, l), cleanup |-> l, adds |-> 1,
          found |-> TRUE]
    ELSE [listeners |-> ls, cleanup |-> cl, adds |-> 0, found |-> TRUE]

\* faulty variant: the cleanup removes a function that is not the one that was added
useEffectOtherRef(ls, cl, l) ==
  [listeners |-> addEventListener(removeEventListener(ls, Listen(cl.id, 0)), l),
   cleanup |-> l, adds |-> 1,
   found |-> cl = NoListen \/ Has(ls, Listen(cl.id, 0))]

\* React.useEffect(() => {...}) without a dependency list, run after a render:
\* the cleanup of the previous render's effect (cl: the listen it captured),
\* then this render's effect with its own listen l
useEffect(ls, cl, l) ==
  [listeners |-> addEventListener(effectCleanup(ls, cl), l),
   cleanup |-> l,
   adds |-> 1,
   found |-> cl = NoListen \/ Has(ls, cl)]

\* ------------------------------------------------------------ listen
\* faulty variant: onMatch is called whatever the checker returns
listenAlways(l, ch, key) ==
  LET c == ch[l.crawler]
      r == keyChecker(c.hotkeys, c.index, key)
  IN [checkers |-> [ch EXCEPT ![l.crawler].index = r.index],
      matched |-> IF r.result THEN 1 ELSE 0,
      invoked |-> 1,
      by |-> {l.id},
      called |-> {l.onMatch}]

\* const listen = ({ key }) => { if (keyCrawler(key)) onMatch(); }
listen(l, ch, key) ==
  LET c == ch[l.crawler]
      r == keyChecker(c.hotkeys, c.index, key)
  IN [checkers |-> [ch EXCEPT ![l.crawler].index = r.index],
      matched |-> IF r.result THEN 1 ELSE 0,
      invoked |-> IF r.result THEN 1 ELSE 0,
      by |-> {l.id},
      called |-> IF r.result THEN {l.onMatch} ELSE {}]

\* one keydown event: every registered handler is called, in registration order
RECURSIVE dispatchEvent(_, _, _)
dispatchEvent(ls, ch, key) ==
  IF ls = <<>>
    THEN [checkers |-> ch, fed |-> 0, matched |-> 0, invoked |-> 0,
          by |-> {}, called |-> {}]
    ELSE LET one == listen(Head(ls), ch, key)
             rest == dispatchEvent(Tail(ls), one.checkers, key)
         IN [checkers |-> rest.checkers,
             fed |-> 1 + rest.fed,
             matched |-> one.matched + rest.matched,
             invoked |-> one.invoked + rest.invoked,
             by |-> one.by \cup rest.by,
             called |-> one.called \cup rest.called]

\* ------------------------------------------------------------ observers
\* the script observer: once a handler is wired for the configured sequence,
\* pos is the number of keys of the sequence entered in order since the last key
\* that was out of order, rounds the complete entries since then and calls the
\* callback invocations since then; mid: a render happened inside an entry.
\* pos = -1 while no handler is wired for the sequence
ObsOff == [pos |-> -1, rounds |-> 0, calls |-> 0, mid |-> FALSE]
ObsStart(S) ==
  IF Len(S) = 0 THEN ObsOff
  ELSE [pos |-> 0, rounds |-> 0, calls |-> 0, mid |-> FALSE]

ObsKey(o, S, key, invoked) ==
  IF o.pos < 0 THEN o
  ELSE IF key # S[o.pos + 1] THEN ObsStart(S)
  ELSE IF o.pos + 1 < Len(S)
    THEN [o EXCEPT !.pos = o.pos + 1, !.calls = o.calls + invoked]
  ELSE IF o.rounds = MaxRounds THEN ObsStart(S)
  ELSE [o EXCEPT !.pos = 0, !.rounds = o.rounds + 1,
                 !.calls = o.calls + invoked]

Window(s) ==
  IF Len(s) > MaxTyped THEN SubSeq(s, Len(s) - MaxTyped + 1, Len(s)) ELSE s

NoEvent ==
  [key |-> "", fed |-> 0, matched |-> 0, invoked |-> 0,
   mounted |-> FALSE, active |-> FALSE, current |-> TRUE,
   committed |-> FALSE, byLatest |-> TRUE, cbLatest |-> TRUE]

VARIABLES
  hotkeys,   \* the array the checker under test was created from
  index,     \* its cursor (let index)
  stream,    \* the keys fed to it so far, in order
  outs,      \* the boolean each feed returned
  cursors,   \* the cursor each feed started from
  mounted,   \* the component calling useHotKey is mounted
  renders,   \* renders of it so far; the identity of the latest closures
  memo,      \* the useMemo cell: [deps, value], value a checker's identity
  cur,       \* the listen closure of the latest render
  checkers,  \* the live closures of createKeyChecker, by identity
  pending,   \* the latest render's effect has not run yet
  cleanup,   \* the listen captured by the cleanup of the last effect run
  listeners, \* the handlers registered on window for keydown, in order
  showKonami,  \* App's state
  keysPressed, \* Konami's state
  adds,      \* addEventListener calls since the mount
  rendersAct,\* renders since the mount
  remOk,     \* every removeEventListener call so far removed a handler
  ev,        \* what the last keydown event did
  typed,     \* the last keys pressed since the configuration was installed
  epoch,     \* how it was installed: "mount" or "change"
  torn,      \* the array of the binding that was unmounted last
  obs        \* the script observer

checkerVars == <<hotkeys, index, stream, outs, cursors>>

hookVars == <<mounted, renders, memo, cur, checkers, pending, cleanup, listeners>>

appVars == <<showKonami, keysPressed>>

ghostVars == <<adds, rendersAct, remOk, ev, typed, epoch, torn, obs>>

vars == <<checkerVars, hookVars, appVars, ghostVars>>

\* nothing rendered yet
InitHook ==
  /\ mounted = FALSE
  /\ renders = 0
  /\ memo = NoMemo
  /\ cur = NoListen
  /\ checkers = <<>>
  /\ pending = FALSE
  /\ cleanup = NoListen
  /\ listeners = <<>>
  /\ showKonami = FALSE
  /\ keysPressed = FALSE
  /\ adds = 0
  /\ rendersAct = 0
  /\ remOk = TRUE
  /\ ev = NoEvent
  /\ typed = <<>>
  /\ epoch = "none"
  /\ torn = <<>>
  /\ obs = ObsOff

\* createKeyChecker(hotkeys): a fresh closure, let index = 0
InitChecker ==
  /\ hotkeys \in HotkeyArrays
  /\ index = 0
  /\ stream = <<>>
  /\ outs = <<>>
  /\ cursors = <<>>
  /\ InitHook

\* one call of the returned closure
Feed(key) ==
  /\ Len(stream) < MaxStream
  /\ LET r == keyChecker(hotkeys, index, key) IN
       /\ index' = r.index
       /\ outs' = Append(outs, r.result)
  /\ stream' = Append(stream, key)
  /\ cursors' = Append(cursors, index)
  /\ UNCHANGED <<hotkeys, hookVars, appVars, ghostVars>>

NextChecker == \E key \in InputKeys : Feed(key)

SpecChecker == InitChecker /\ [][NextChecker]_vars

\* ------------------------------------------------------------ useHotKey
\* the binding has a handler wired: an effect has run since the mount
Active == mounted /\ cleanup # NoListen

\* checkers some live closure still refers to
Refs ==
  {memo.value, cur.crawler, cleanup.crawler}
    \cup {listeners[i].crawler : i \in DOMAIN listeners}

Live(ch, refs) == [i \in (DOMAIN ch) \cap refs |-> ch[i]]

\* the state after React has flushed the passive effects it has pending, which
\* it does on its own schedule and before every render and unmount
FlushedFrom(o) ==
  IF pending
    THEN LET e == useEffect(listeners, cleanup, cur) IN
         [listeners |-> e.listeners, cleanup |-> e.cleanup,
          adds |-> adds + e.adds, remOk |-> remOk /\ e.found,
          obs |-> IF o.pos < 0 THEN ObsStart(Concat(memo.deps)) ELSE o]
    ELSE [listeners |-> listeners, cleanup |-> cleanup, adds |-> adds,
          remOk |-> remOk, obs |-> o]

Flushed == FlushedFrom(obs)

\* faulty variant: the checker is rebuilt on every render (no useMemo)
useMemoNever(h) == [deps |-> h, value |-> renders + 1]

\* React.useMemo(() => createKeyChecker([].concat(hotKeys)), [hotKeys]): the
\* cell after a render with hotKeys = h
useMemo(h) ==
  IF mounted /\ ObjectIs(memo.deps, h) THEN memo
  ELSE [deps |-> h, value |-> renders + 1]

\* one call of useHotKey(h, onMatch) during a render, on a heap ch of checkers
\* (o: the observer before it): the memoized checker, a new listen closure, an
\* effect scheduled
useHotKey(h, ch, o) ==
  /\ renders < MaxRenders
  /\ LET f == FlushedFrom(o)
         m == useMemo(h)
         changed == mounted /\ m.deps # memo.deps
     IN
       /\ memo' = m
       /\ cur' = Listen(renders + 1, m.value)
       /\ listeners' = f.listeners
       /\ cleanup' = IF mounted THEN f.cleanup ELSE NoListen
       /\ adds' = IF mounted THEN f.adds ELSE 0
       /\ remOk' = f.remOk
       /\ rendersAct' = IF mounted THEN rendersAct + 1 ELSE 1
       /\ epoch' = IF ~mounted THEN "mount" ELSE IF changed THEN "change" ELSE epoch
       /\ typed' = IF ~mounted \/ changed THEN <<>> ELSE typed
       /\ torn' = IF mounted THEN torn ELSE <<>>
       /\ obs' = IF ~mounted \/ changed THEN ObsOff
                 ELSE [f.obs EXCEPT !.mid = f.obs.mid \/ f.obs.pos > 0]
       /\ renders' = renders + 1
       /\ pending' = TRUE
       /\ mounted' = TRUE
       /\ checkers' =
            Live(IF m.value \in DOMAIN ch THEN ch
                 ELSE ch @@ (m.value :> createKeyChecker(Concat(h))), Refs')

\* the component is unmounted: pending effects are flushed, then the last
\* effect's cleanup runs and the hook's state is dropped
unmountHook ==
  /\ mounted
  /\ LET f == Flushed IN
       /\ listeners' = effectCleanup(f.listeners, f.cleanup)
       /\ remOk' = (f.remOk /\ Has(f.listeners, f.cleanup))
       /\ adds' = f.adds
  /\ torn' = Concat(memo.deps)
  /\ mounted' = FALSE
  /\ pending' = FALSE
  /\ memo' = NoMemo
  /\ cur' = NoListen
  /\ cleanup' = NoListen
  /\ typed' = <<>>
  /\ epoch' = "none"
  /\ obs' = ObsOff
  /\ checkers' = Live(checkers, Refs')
  /\ UNCHANGED <<renders, rendersAct, ev>>

\* the first render of a component that calls useHotKey(h, ...)
Mount(h) ==
  /\ ~mounted
  /\ useHotKey(h, checkers, obs)
  /\ UNCHANGED <<ev, checkerVars, appVars>>

\* a later render of it, with the same or another hotKeys value
Rerender(h) ==
  /\ mounted
  /\ useHotKey(h, checkers, obs)
  /\ UNCHANGED <<ev, checkerVars, appVars>>

Unmount ==
  /\ unmountHook
  /\ UNCHANGED <<checkerVars, appVars>>

\* React runs the scheduled effect of the latest render
FlushEffects ==
  /\ pending
  /\ LET f == Flushed IN
       /\ listeners' = f.listeners
       /\ cleanup' = f.cleanup
       /\ adds' = f.adds
       /\ remOk' = f.remOk
       /\ obs' = f.obs
  /\ pending' = FALSE
  /\ UNCHANGED <<mounted, renders, memo, cur>>
  /\ checkers' = Live(checkers, Refs')
  /\ UNCHANGED <<rendersAct, ev, typed, epoch, torn, checkerVars, appVars>>

\* what a keydown event does and records (current: the handlers that received
\* it feed the checker memoized by the latest render; committed: it arrived
\* with the latest render's effect run; byLatest, cbLatest: the handlers that
\* received it and the callbacks it called are those of the latest render)
EventOf(key, d) ==
  [key |-> key, fed |-> d.fed, matched |-> d.matched, invoked |-> d.invoked,
   mounted |-> mounted, active |-> Active,
   current |-> \A i \in DOMAIN listeners : listeners[i].crawler = memo.value,
   committed |-> mounted /\ ~pending,
   byLatest |-> d.by \subseteq {cur.id},
   cbLatest |-> d.called \subseteq {cur.onMatch}]

\* the window receives a keydown event with this key
KeyDown(key) ==
  /\ LET d == dispatchEvent(listeners, checkers, key) IN
       /\ checkers' = d.checkers
       /\ ev' = EventOf(key, d)
       /\ obs' = ObsKey(obs, Concat(memo.deps), key, d.invoked)
  /\ typed' = Window(Append(typed, key))
  /\ UNCHANGED <<mounted, renders, memo, cur, pending, cleanup, listeners>>
  /\ UNCHANGED <<adds, rendersAct, remOk, epoch, torn, checkerVars, appVars>>

\* ------------------------------------------------------------ App and Konami
\* the "Turn on/off Konami" button: setShow(!showKonami) mounts Konami, with
\* useState(false) and its first call of useHotKey, or unmounts it
ClickToggle ==
  /\ showKonami' = ~showKonami
  /\ keysPressed' = FALSE
  /\ IF showKonami
       THEN unmountHook
       ELSE useHotKey(sequence, checkers, obs) /\ UNCHANGED ev
  /\ UNCHANGED checkerVars

\* the "Reset Code" button, shown while keysPressed: setKeysPress(false)
\* renders Konami again
ClickReset ==
  /\ mounted
  /\ keysPressed
  /\ keysPressed' = FALSE
  /\ useHotKey(sequence, checkers, obs)
  /\ UNCHANGED <<ev, showKonami, checkerVars>>

\* a keydown event in the application: a handler's onMatch is
\* () => setKeysPress(true), which renders Konami again when the state changes
AppKeyDown(key) ==
  LET d == dispatchEvent(listeners, checkers, key)
      o == ObsKey(obs, Concat(memo.deps), key, d.invoked)
  IN
    /\ ev' = EventOf(key, d)
    /\ IF d.invoked > 0 /\ ~keysPressed
         THEN /\ keysPressed' = TRUE
              /\ useHotKey(sequence, d.checkers, o)
         ELSE /\ checkers' = d.checkers
              /\ obs' = o
              /\ UNCHANGED <<mounted, renders, memo, cur, pending, cleanup,
                             listeners, keysPressed>>
              /\ UNCHANGED <<adds, rendersAct, remOk, typed, epoch, torn>>
    /\ UNCHANGED <<showKonami, checkerVars>>

Init ==
  /\ hotkeys = <<>>
  /\ index = 0
  /\ stream = <<>>
  /\ outs = <<>>
  /\ cursors = <<>>
  /\ InitHook

Next ==
  \/ \E h \in HotKeysPool : Mount(h)
  \/ \E h \in HotKeysPool : Rerender(h)
  \/ FlushEffects
  \/ Unmount
  \/ \E key \in Keys : KeyDown(key)

Spec == Init /\ [][Next]_vars

NextApp ==
  \/ ClickToggle
  \/ ClickReset
  \/ FlushEffects
  \/ \E key \in AppKeys : AppKeyDown(key)

SpecApp == Init /\ [][NextApp]_vars

\* ------------------------------------------------------------ claims: checker
\* S occurs in the stream ending at position i
OccursAt(i) ==
  /\ i >= Len(hotkeys)
  /\ SubSeq(stream, i - Len(hotkeys) + 1, i) = hotkeys

\* C1 as stated: a feed returns true exactly when it completes a contiguous
\* occurrence of the sequence in the stream
C1_AsStated ==
  Len(hotkeys) >= 1 =>
    \A i \in 1..Len(stream) : outs[i] <=> OccursAt(i)

\* C1 (amended): a feed returns true exactly when it completes an occurrence
\* of the sequence whose first symbol was fed with the cursor at 0 (at the
\* start of the stream, or right after a match or a mismatch); occurrences
\* that begin in the middle of another attempt are not reported
C1_RestartMatch ==
  Len(hotkeys) >= 1 =>
    \A i \in 1..Len(stream) :
      outs[i] <=> (OccursAt(i) /\ cursors[i - Len(hotkeys) + 1] = 0)

\* a reported occurrence and a missed one in the same stream
C1_Witness ==
  /\ Len(hotkeys) >= 1
  /\ \E i \in 1..Len(stream) : outs[i]
  /\ \E i \in 1..Len(stream) : OccursAt(i) /\ ~outs[i]

ScenarioStream == <<"a", "b", "a", "a", "b", "a", "c">>

\* C2 as stated: S = [a,b,a,c] fed a,b,a,a,b,a,c returns true on the seventh
\* feed and false before
C2_AsStated ==
  (hotkeys = ScenarioABAC /\ stream = ScenarioStream) =>
    outs = <<FALSE, FALSE, FALSE, FALSE, FALSE, FALSE, TRUE>>

\* C2 (amended): S = [a,b,a,c] fed a,b,a,a,b,a,c returns false on all seven
\* feeds, and the cursor ends at 0
C2_AllFalse ==
  (hotkeys = ScenarioABAC /\ stream = ScenarioStream) =>
    /\ outs = <<FALSE, FALSE, FALSE, FALSE, FALSE, FALSE, FALSE>>
    /\ index = 0

C2_Witness == hotkeys = ScenarioABAC /\ stream = ScenarioStream

\* C3: for a non-empty sequence the cursor is always a position of it
C3_IndexInRange ==
  Len(hotkeys) >= 1 => (index >= 0 /\ index <= Len(hotkeys) - 1)

\* the cursor has been at the last position and a further key was fed
C3_Witness ==
  /\ Len(hotkeys) >= 2
  /\ \E i \in 1..Len(stream) : cursors[i] = Len(hotkeys) - 1 /\ outs[i]

\* ------------------------------------------------------------ claims: binding
\* C4: with the Konami sequence configured and its handler wired, entering the
\* eleven keys in order calls the callback at the final Enter and not before,
\* and entering them again calls it exactly once more; the cursor follows the
\* entry
C4_KonamiTwice ==
  (memo.deps = sequence /\ obs.pos >= 0) =>
    /\ obs.calls = obs.rounds
    /\ checkers[memo.value].index = obs.pos
    /\ (obs.pos > 0 => ev.invoked = 0)

\* the sequence has been entered twice in a row
C4_Witness ==
  /\ memo.deps = sequence
  /\ obs.pos = 0 /\ obs.rounds = 2 /\ obs.calls = 2
  /\ ev.key = "Enter" /\ ev.invoked = 1

\* C5: after the unmount no handler is registered and a keydown event feeds no
\* checker and calls no callback
C5_NoCallbackAfterTeardown ==
  /\ (~mounted => listeners = <<>>)
  /\ (~ev.mounted => (ev.fed = 0 /\ ev.invoked = 0))

\* the whole sequence of the unmounted binding has been typed after the unmount
C5_Witness ==
  /\ ~mounted
  /\ Len(torn) >= 2
  /\ typed = torn
  /\ ~ev.mounted /\ ev.key = torn[Len(torn)]

\* C6: at most one handler is registered at any time, exactly one (the latest
\* render's listen) when the binding is mounted with its effects run, none after
\* the unmount, and every removal removed the handler that had been added
C6_OneHandler ==
  /\ Len(listeners) <= 1
  /\ ((mounted /\ ~pending) => listeners = <<cur>>)
  /\ (~mounted => listeners = <<>>)
  /\ remOk

\* a second render has changed the sequence and its effect has run
C6_Witness ==
  /\ mounted /\ ~pending
  /\ epoch = "change"
  /\ rendersAct >= 2
  /\ Len(listeners) = 1

\* C7 as stated: addEventListener is called at most once between mount and
\* unmount
C7_AsStated == adds <= 1

\* C7 (amended): addEventListener is called once for every render whose effect
\* has run, so once per render of the activation, and the handlers never
\* accumulate
C7_OncePerRender ==
  /\ adds = rendersAct - (IF pending THEN 1 ELSE 0)
  /\ Len(listeners) <= 1

C7_Witness == mounted /\ ~pending /\ adds >= 3 /\ Len(listeners) = 1

\* the last keys typed since the configuration was installed are the array
EndsWith(t, S) ==
  /\ Len(S) >= 1
  /\ Len(t) >= Len(S)
  /\ SubSeq(t, Len(t) - Len(S) + 1, Len(t)) = S

\* C8 as stated: after a render with another, non-empty hotKeys value the
\* memoized checker is fresh, and from then on the callback is called only on
\* the last key of a complete entry of the new sequence
C8_AsStated ==
  (mounted /\ epoch = "change" /\ Len(Concat(memo.deps)) >= 1) =>
    /\ (typed = <<>> =>
          checkers[memo.value] = createKeyChecker(Concat(memo.deps)))
    /\ ((typed # <<>> /\ ev.invoked >= 1) => EndsWith(typed, Concat(memo.deps)))

\* what holds of the change: the memoized checker is fresh, and once the effect
\* of that render has run the callback is called only on the last key of a
\* complete entry of the new sequence
C8_AfterEffects ==
  (mounted /\ epoch = "change") =>
    /\ (typed = <<>> =>
          checkers[memo.value] = createKeyChecker(Concat(memo.deps)))
    /\ ((typed # <<>> /\ ev.invoked >= 1 /\ ev.current)
          => EndsWith(typed, Concat(memo.deps)))

\* C9: a keydown event delivered while a handler is wired feeds one checker
\* once and calls the callback once if the checker returned true, not at all
\* otherwise; fed in order, the cursor is the position reached in the sequence
C9_OncePerEvent ==
  /\ (ev.active => (ev.fed = 1 /\ ev.invoked = ev.matched))
  /\ (obs.pos >= 0 => checkers[memo.value].index = obs.pos)

\* an event delivered between a render and its effect completed the sequence
C9_Witness ==
  /\ ev.active /\ ev.matched = 1 /\ ev.invoked = 1
  /\ pending /\ obs.rounds = 1 /\ obs.pos = 0

\* a render with the same hotKeys value keeps the memoized checker as it is
FrameRender ==
  (mounted /\ mounted' /\ renders' # renders /\ memo'.deps = memo.deps) =>
    (memo' = memo /\ checkers'[memo.value] = checkers[memo.value])

\* so does the run of the effect
FrameFlush ==
  (mounted /\ mounted' /\ pending /\ ~pending' /\ renders' = renders) =>
    (memo' = memo /\ checkers'[memo.value] = checkers[memo.value])

\* C10: renders with the same hotKeys value and the effects they run leave the
\* checker and its cursor unchanged, so a sequence entered with renders in
\* between still calls the callback on its last key, once per entry
C10_RendersKeepProgress ==
  /\ [](obs.pos >= 0 => obs.calls = obs.rounds)
  /\ [][FrameRender /\ FrameFlush]_vars

\* an entry was completed although a render happened in the middle of it
C10_Witness ==
  /\ obs.pos = 0 /\ obs.rounds = 1 /\ obs.calls = 1 /\ obs.mid
  /\ ev.invoked = 1

\* ------------------------------------------------------------ claims: checker, continued
\* the cursor right after the i-th feed
CursorAfter(i) == IF i = Len(stream) THEN index ELSE cursors[i + 1]

\* C11: for a non-empty sequence, right after a feed that returned true and
\* right after a feed whose symbol differs from the symbol at the cursor, the
\* cursor is 0
C11_ResetToZero ==
  Len(hotkeys) >= 1 =>
    \A i \in 1..Len(stream) :
      (outs[i] \/ stream[i] # At(hotkeys, cursors[i])) => CursorAfter(i) = 0

\* a feed that returned true and a mismatching feed at a cursor above 0
C11_Witness ==
  /\ Len(hotkeys) >= 2
  /\ \E i \in 1..Len(stream) : outs[i]
  /\ \E i \in 1..Len(stream) :
       cursors[i] > 0 /\ stream[i] # At(hotkeys, cursors[i])

\* C12: for a one-symbol sequence [x] every feed of x returns true, every feed
\* of another symbol returns false, and the cursor is 0 before and after every
\* feed
C12_SingleSymbol ==
  Len(hotkeys) = 1 =>
    /\ \A i \in 1..Len(stream) :
         /\ outs[i] <=> (stream[i] = hotkeys[1])
         /\ cursors[i] = 0
    /\ index = 0

\* x twice in a row and another symbol have been fed to [x]
C12_Witness ==
  /\ Len(hotkeys) = 1
  /\ \E i \in 1..(Len(stream) - 1) :
       stream[i] = hotkeys[1] /\ stream[i + 1] = hotkeys[1]
  /\ \E i \in 1..Len(stream) : stream[i] # hotkeys[1]

\* C14: a feed at a cursor k > 0 whose symbol differs from sequence[k] and
\* equals sequence[0] returns false and leaves the cursor at 0, not 1; so
\* S = [a,a,b] fed a,a,a,b returns false four times
C14_NoOverlapRestart ==
  /\ \A i \in 1..Len(stream) :
       (cursors[i] > 0 /\ stream[i] # At(hotkeys, cursors[i])
          /\ stream[i] = At(hotkeys, 0))
         => (CursorAfter(i) = 0 /\ ~outs[i])
  /\ (hotkeys = ScenarioAAB /\ stream = <<"a", "a", "a", "b">>)
       => outs = <<FALSE, FALSE, FALSE, FALSE>>

C14_Witness == hotkeys = ScenarioAAB /\ stream = <<"a", "a", "a", "b">>

\* C15: a checker built from the empty array returns false for every input,
\* a key or undefined, whatever was fed before
C15_EmptyNeverMatches ==
  Len(hotkeys) = 0 => \A i \in 1..Len(stream) : ~outs[i]

\* the empty checker has been fed keys and undefined, and its cursor has moved
C15_Witness ==
  /\ Len(hotkeys) = 0
  /\ index > 0
  /\ \E i \in 1..Len(stream) : stream[i] = Undefined
  /\ \E i \in 1..Len(stream) : stream[i] \in Keys

\* C16: for a non-empty sequence of length n, a feed returns true only if the
\* last n symbols fed are the sequence in order, and two feeds that return true
\* are at least n symbols apart
C16_NoFalsePositive ==
  Len(hotkeys) >= 1 =>
    /\ \A i \in 1..Len(stream) : outs[i] => OccursAt(i)
    /\ \A i, j \in 1..Len(stream) :
         (i < j /\ outs[i] /\ outs[j]) => j - i >= Len(hotkeys)

\* two feeds have returned true for a sequence of two symbols or more
C16_Witness ==
  /\ Len(hotkeys) >= 2
  /\ \E i, j \in 1..Len(stream) : i < j /\ outs[i] /\ outs[j]

\* ------------------------------------------------------------ claims: binding, continued
\* C13: with a handler wired for it, a hotKeys value that is a plain string k
\* gives the checker of [k], and the callback is called on a keydown exactly
\* when its key is k, which is also what the one-element array [k] does
C13_ScalarAsSingleton ==
  /\ (mounted /\ memo.deps.kind = "scalar")
       => checkers[memo.value].hotkeys = <<memo.deps.str>>
  /\ (mounted /\ Len(Concat(memo.deps)) = 1 /\ typed # <<>>
        /\ ev.active /\ ev.current)
       => ev.invoked = (IF ev.key = Concat(memo.deps)[1] THEN 1 ELSE 0)

\* the string is configured and a keydown with that key has called the callback
C13_Witness ==
  /\ mounted /\ memo.deps = Scalar("c")
  /\ typed # <<>> /\ ev.active /\ ev.current
  /\ ev.key = "c" /\ ev.invoked = 1

\* C17: once the latest render's effect has run, the one handler registered is
\* that render's listen, bound to the checker memoized for the latest hotKeys
\* value and to the latest onMatch; a keydown event delivered then is handled
\* by it alone and calls no earlier callback
C17_LatestHandler ==
  /\ (mounted /\ ~pending) =>
       /\ listeners = <<Listen(renders, memo.value)>>
       /\ cur = Listen(renders, memo.value)
       /\ checkers[memo.value].hotkeys = Concat(memo.deps)
  /\ ev.committed =>
       (ev.fed = 1 /\ ev.byLatest /\ ev.cbLatest /\ ev.current)

\* a match was handled after a later render with another sequence had its
\* effect run
C17_Witness ==
  /\ mounted /\ ~pending
  /\ rendersAct >= 2 /\ epoch = "change"
  /\ typed # <<>>
  /\ ev.committed /\ ev.invoked = 1

\* ------------------------------------------------------------ claims: App
\* while Konami is off, a step that leaves it off changes neither the
\* checkers, nor the handlers, nor keysPressed
OffInert ==
  (~showKonami /\ ~showKonami') =>
    (keysPressed' = keysPressed /\ checkers' = checkers
       /\ listeners' = listeners /\ obs' = obs)

\* turning Konami on starts one fresh checker of the sequence, keysPressed false
OnFresh ==
  (~showKonami /\ showKonami') =>
    /\ ~keysPressed'
    /\ DOMAIN checkers' = {memo'.value}
    /\ checkers'[memo'.value] = createKeyChecker(sequence.arr)

\* keysPressed becomes true only on the Enter that ends an in-order entry of
\* the whole sequence made since Konami was last turned on
MessageAfterEntry ==
  (~keysPressed /\ keysPressed') =>
    /\ showKonami /\ showKonami'
    /\ obs.pos = Len(sequence.arr) - 1
    /\ ev'.key = sequence.arr[Len(sequence.arr)]

\* C18: with Konami off nothing is mounted, no handler is registered, no
\* checker holds progress and keysPressed is false, and key presses change none
\* of it; each turn-on starts from cursor 0 with keysPressed false; the message
\* appears only after the whole sequence was entered in order while Konami was
\* continuously on
C18_OffOnDiscipline ==
  /\ [](~showKonami =>
          (~mounted /\ listeners = <<>> /\ DOMAIN checkers = {}
             /\ ~keysPressed /\ obs.pos = -1))
  /\ [](keysPressed => (showKonami /\ mounted))
  /\ [][OffInert /\ OnFresh /\ MessageAfterEntry]_vars

\* the message is shown in a second activation of Konami
C18_Witness ==
  /\ showKonami /\ keysPressed
  /\ renders > rendersAct
  /\ ev.key = "Enter" /\ ev.invoked = 1

====
